---- MODULE Spec2Model ----
(***************************************************************************)
(* Job registry and reservation protocol of datajoint/jobs.py (class Job). *)
(* The registry is a table of rows keyed by the primary key of the         *)
(* computed table; workers refresh it from a key source, query it for      *)
(* scheduled jobs and write reservations and outcomes into it.             *)
(***************************************************************************)
EXTENDS Integers, Sequences, FiniteSets, TLC

\* ---------------------------------------------------------------- bounds
NumKeys == 2
NumWorkers == 2
MaxTime == 1
MaxLimit == 2

Keys == 1..NumKeys
Workers == 1..NumWorkers

\* ------------------------------------------------------ program constants
ERROR_MESSAGE_LENGTH == 2047
DefaultPriority == 3

\* ------------------------------------------------------------ value model
\* SQL NULL / Python None is the empty tuple, a present value v is <<v>>.
NULL == <<>>
Some(v) == <<v>>

\* Character strings are kept run-length encoded: a sequence of runs
\* [ch, n] standing for n copies of the character ch.
EmptyStr == <<>>
Rep(c, n) == IF n > 0 THEN <<[ch |-> c, n |-> n]>> ELSE <<>>

RECURSIVE StrLen(_)
StrLen(s) == IF s = <<>> THEN 0 ELSE Head(s).n + StrLen(Tail(s))

\* s[:n] for n >= 0
RECURSIVE StrTake(_, _)
StrTake(s, n) ==
    IF n <= 0 \/ s = <<>> THEN <<>>
    ELSE IF Head(s).n <= n THEN <<Head(s)>> \o StrTake(Tail(s), n - Head(s).n)
    ELSE <<[ch |-> Head(s).ch, n |-> n]>>

\* a + b
StrCat(a, b) ==
    IF a = <<>> THEN b
    ELSE IF b = <<>> THEN a
    ELSE IF a[Len(a)].ch = b[1].ch
         THEN SubSeq(a, 1, Len(a) - 1)
              \o <<[ch |-> b[1].ch, n |-> a[Len(a)].n + b[1].n]>>
              \o Tail(b)
         ELSE a \o b

TRUNCATION_APPENDIX ==
    <<[ch |-> ".", n |-> 3], [ch |-> "t", n |-> 1], [ch |-> "r", n |-> 1],
      [ch |-> "u", n |-> 1], [ch |-> "n", n |-> 1], [ch |-> "c", n |-> 1],
      [ch |-> "a", n |-> 1], [ch |-> "t", n |-> 1], [ch |-> "e", n |-> 1],
      [ch |-> "d", n |-> 1]>>

\* Python values passed as run_version: None or a dict of string -> int,
\* the dict kept as a sequence of <<name, number>> items.
PyNone == [t |-> "none", v |-> <<>>]
PyDict(items) == [t |-> "dict", v |-> items]

\* bool(x) of a Python value
truthy(x) == IF x.t = "none" THEN FALSE ELSE Len(x.v) > 0

\* json.dumps(x): the text as a sequence of tokens
RECURSIVE dump_items(_)
dump_items(items) ==
    IF items = <<>> THEN <<>>
    ELSE <<Head(items)[1], ":", ToString(Head(items)[2])>>
         \o (IF Tail(items) = <<>> THEN <<>> ELSE <<",">> \o dump_items(Tail(items)))

json_dumps(x) ==
    IF x.t = "none" THEN <<"null">>
    ELSE <<"{">> \o dump_items(x.v) \o <<"}">>

\* json.loads(text) on the texts json_dumps produces
parse_int(tok) == CHOOSE n \in 0..9 : ToString(n) = tok

RECURSIVE load_items(_)
load_items(toks) ==
    IF toks = <<>> \/ Head(toks) = "}" THEN <<>>
    ELSE IF Head(toks) = "," THEN load_items(Tail(toks))
    ELSE <<<<toks[1], parse_int(toks[3])>>>> \o load_items(SubSeq(toks, 4, Len(toks)))

json_loads(text) ==
    IF text = <<"null">> THEN PyNone
    ELSE PyDict(load_items(Tail(text)))

\* a fetched run_version column decoded back to a Python value
decode_version(col) == IF col = NULL THEN PyNone ELSE json_loads(col[1])

\* ---------------------------------------------------------------- state
VARIABLES
    table,      \* the rows of the jobs table
    now,        \* the store's CURRENT_TIMESTAMP
    last,       \* the last call made on the Job object and what it returned
    pc,         \* per worker: position in the populate cycle or in refresh
    job,        \* per worker: the key it picked / is computing (0 = none)
    rf,         \* per worker: the local variables of a refresh in progress
    excluded,   \* history: keys set to ignore and not written or deleted since
    writer,     \* history: per key, the workers whose writes reached its record
    began       \* history: the registry a refresh that was cut short started from

\* what the calls that run as one statement leave alone
aux == <<rf, excluded, writer, began>>

vars == <<table, now, last, pc, job, rf, excluded, writer, began>>

\* ------------------------------------------------------- table definition
\* status :enum('scheduled','reserved','error','ignore')
StatusEnum == {"scheduled", "reserved", "error", "ignore"}

\* variant: the "---" line placed below status, which makes status part of
\* the primary key
primary_key_with_status(row) == <<row.key, row.status>>

\* The primary key of the jobs table: the attributes above the "---" line,
\* i.e. the primary key of the computed table.
primary_key(row) == row.key

\* A row holding the declared default of every secondary attribute; status
\* has no default and is always supplied by the caller.
DefaultRow(key, status, ts) ==
    [key |-> key, status |-> status, priority |-> DefaultPriority,
     error_message |-> EmptyStr, error_stack |-> NULL,
     run_duration |-> NULL, run_version |-> NULL,
     user |-> 0, host |-> 0, pid |-> 0, connection_id |-> 0,
     timestamp |-> ts]

\* Worker identity captured at call time. Hosts, users, process and
\* connection ids are numbered after the worker; 0 is the column default.
platform_node(w) == w
os_getpid(w) == w
connection_id(w) == w
get_user(w) == w

\* ------------------------------------------------------------ record store
\* How the store treats a value outside a column's declared enum depends on
\* its SQL mode: a strict store rejects the statement, a lenient one stores
\* the enum's error value '' instead.
SqlModes == {"strict", "lenient"}

KeysOf(rows) == {r.key : r \in rows}

\* Table.insert1(row, replace=...): one atomic statement.
Insert1(tbl, row, replace, mode) ==
    LET conflict == {r \in tbl : primary_key(r) = primary_key(row)}
        stored == IF row.status \in StatusEnum THEN row
                  ELSE [row EXCEPT !.status = ""]
    IN  IF row.status \notin StatusEnum /\ mode = "strict"
        THEN [table |-> tbl, err |-> "DataError"]
        ELSE IF conflict # {} /\ ~replace
        THEN [table |-> tbl, err |-> "DuplicateError"]
        ELSE [table |-> (tbl \ conflict) \cup {stored}, err |-> "ok"]

\* Table.update1(dict(**key, priority=p)): exactly one row must match.
Update1Priority(tbl, key, p) ==
    LET match == {r \in tbl : r.key = key}
    IN  IF Cardinality(match) # 1
        THEN [table |-> tbl, err |-> "DataJointError"]
        ELSE [table |-> {IF r \in match THEN [r EXCEPT !.priority = p] ELSE r : r \in tbl},
              err |-> "ok"]

\* (self & restriction).fetch(order_by=...): the rows in an order that is
\* non-decreasing in the order_by attributes; rows that tie come in any order.
RECURSIVE LexLeq(_, _, _)
LexLeq(r1, r2, order_by) ==
    IF order_by = <<>> THEN TRUE
    ELSE IF r1[Head(order_by)] < r2[Head(order_by)] THEN TRUE
    ELSE IF r1[Head(order_by)] > r2[Head(order_by)] THEN FALSE
    ELSE LexLeq(r1, r2, Tail(order_by))

Fetch(rows, order_by) ==
    LET n == Cardinality(rows)
    IN  {s \in [1..n -> rows] :
            /\ \A i, j \in 1..n : i # j => s[i] # s[j]
            /\ \A i, j \in 1..n : i < j => LexLeq(s[i], s[j], order_by)}

\* fetch("KEY") of a key source: its keys in primary-key order
RECURSIVE SortedSeq(_)
SortedSeq(S) ==
    IF S = {} THEN <<>>
    ELSE LET m == CHOOSE x \in S : \A y \in S : x <= y
         IN  <<m>> \o SortedSeq(S \ {m})

Min(a, b) == IF a <= b THEN a ELSE b

\* the elements of a list
Range(s) == {s[i] : i \in 1..Len(s)}

\* ------------------------------------------------------------ Job methods
\* Job.refresh(key_source); stamp[k] is CURRENT_TIMESTAMP at the insert of k.
RECURSIVE refresh_insert(_, _, _)
refresh_insert(tbl, keys, stamp) ==
    IF keys = <<>> THEN [table |-> tbl, err |-> "ok"]
    ELSE LET res == Insert1(tbl, DefaultRow(Head(keys), "scheduled", stamp[Head(keys)]),
                            FALSE, "strict")
         IN  IF res.err # "ok" THEN res
             ELSE refresh_insert(res.table, Tail(keys), stamp)

\* variant: ignore left out of the statuses refresh looks at
preserve_statuses_no_ignore == {"reserved", "error"}

preserve_statuses == {"reserved", "error", "ignore"}

\* variant: reserved jobs are dropped as well, to be scheduled anew
refresh_delete_expiring(tbl, key_source) ==
    LET existing_jobs == KeysOf({r \in tbl : r.status \in preserve_statuses})
    IN  {r \in tbl : /\ ~(r.key \in existing_jobs /\ r.key \notin key_source)
                     /\ r.status # "reserved"}

\* variant: the membership test of the delete loop inverted
refresh_delete_inverted(tbl, key_source) ==
    LET existing_jobs == KeysOf({r \in tbl : r.status \in preserve_statuses})
    IN  {r \in tbl : ~(r.key \in existing_jobs /\ r.key \in key_source)}

\* the deletes: drop the preserved-status jobs that left the key source
refresh_delete(tbl, key_source) ==
    LET existing_jobs == KeysOf({r \in tbl : r.status \in preserve_statuses})
    IN  {r \in tbl : ~(r.key \in existing_jobs /\ r.key \notin key_source)}

\* the key-source keys that have no row once the deletes are done
refresh_missing(tbl, key_source) ==
    LET existing_all == KeysOf(refresh_delete(tbl, key_source))
    IN  {k \in key_source : k \notin existing_all}

refresh(tbl, key_source, stamp) ==
    LET available_keys == SortedSeq(key_source)
        missing == refresh_missing(tbl, key_source)
    IN  refresh_insert(refresh_delete(tbl, key_source),
                       SelectSeq(available_keys, LAMBDA k : k \in missing), stamp)

\* Job.reserve(key)
reserve(tbl, ts, w, key) ==
    LET row == [DefaultRow(key, "reserved", ts) EXCEPT
                    !.host = platform_node(w), !.pid = os_getpid(w),
                    !.connection_id = connection_id(w), !.user = get_user(w)]
        res == Insert1(tbl, row, TRUE, "strict")
    IN  [table |-> res.table,
         ret |-> IF res.err = "DuplicateError" THEN "False" ELSE "True"]

\* Job.ignore(key)
ignore(tbl, ts, w, key) ==
    LET row == [DefaultRow(key, "ignore", ts) EXCEPT
                    !.host = platform_node(w), !.pid = os_getpid(w),
                    !.connection_id = connection_id(w), !.user = get_user(w)]
        res == Insert1(tbl, row, TRUE, "strict")
    IN  [table |-> res.table,
         ret |-> IF res.err = "DuplicateError" THEN "False" ELSE "True"]

\* Job.complete(key, run_duration, run_version)
complete(tbl, ts, w, key, run_duration, run_version, mode) ==
    LET row == [DefaultRow(key, "success", ts) EXCEPT
                    !.run_duration = run_duration,
                    !.run_version = IF truthy(run_version)
                                    THEN Some(json_dumps(run_version)) ELSE NULL,
                    !.host = platform_node(w), !.pid = os_getpid(w),
                    !.connection_id = connection_id(w), !.user = get_user(w)]
        res == Insert1(tbl, row, TRUE, mode)
    IN  [table |-> res.table, ret |-> IF res.err = "ok" THEN "None" ELSE res.err]

\* variant: the cut made at the limit, leaving no room for the appendix
truncate_without_room(error_message) ==
    IF StrLen(error_message) > ERROR_MESSAGE_LENGTH
    THEN StrCat(StrTake(error_message, ERROR_MESSAGE_LENGTH), TRUNCATION_APPENDIX)
    ELSE error_message

\* Job.error(key, error_message, error_stack)
truncate(error_message) ==
    IF StrLen(error_message) > ERROR_MESSAGE_LENGTH
    THEN StrCat(StrTake(error_message, ERROR_MESSAGE_LENGTH - StrLen(TRUNCATION_APPENDIX)),
                TRUNCATION_APPENDIX)
    ELSE error_message

\* variant: the worker's identity left out of the row
error_without_identity(tbl, ts, w, key, error_message, error_stack) ==
    LET row == [DefaultRow(key, "error", ts) EXCEPT
                    !.error_message = truncate(error_message),
                    !.error_stack = error_stack]
        res == Insert1(tbl, row, TRUE, "strict")
    IN  [table |-> res.table, ret |-> IF res.err = "ok" THEN "None" ELSE res.err]

error(tbl, ts, w, key, error_message, error_stack) ==
    LET row == [DefaultRow(key, "error", ts) EXCEPT
                    !.error_message = truncate(error_message),
                    !.error_stack = error_stack,
                    !.host = platform_node(w), !.pid = os_getpid(w),
                    !.connection_id = connection_id(w), !.user = get_user(w)]
        res == Insert1(tbl, row, TRUE, "strict")
    IN  [table |-> res.table, ret |-> IF res.err = "ok" THEN "None" ELSE res.err]

\* variant: the status="scheduled" restriction left out
get_scheduled_jobs_unrestricted(tbl, limit, order_by) ==
    LET order == IF order_by # <<>> THEN order_by ELSE <<"priority", "timestamp">>
        n(s) == IF limit # NULL /\ limit[1] # 0 THEN Min(limit[1], Len(s)) ELSE Len(s)
    IN  {[i \in 1..n(s) |-> s[i].key] : s \in Fetch(tbl, order)}

\* Job.get_scheduled_jobs(limit, order_by): the key lists it can return
get_scheduled_jobs(tbl, limit, order_by) ==
    LET query == {r \in tbl : r.status = "scheduled"}
        order == IF order_by # <<>> THEN order_by ELSE <<"priority", "timestamp">>
        n(s) == IF limit # NULL /\ limit[1] # 0 THEN Min(limit[1], Len(s)) ELSE Len(s)
    IN  {[i \in 1..n(s) |-> s[i].key] : s \in Fetch(query, order)}

\* variant: the update also puts the job back in the queue
set_priority_rescheduling(tbl, key, priority) ==
    LET res == Update1Priority(tbl, key, priority)
    IN  [table |-> {IF r.key = key THEN [r EXCEPT !.status = "scheduled"] ELSE r
                        : r \in res.table},
         ret |-> IF res.err = "ok" THEN "None" ELSE res.err]

\* Job.set_priority(key, priority)
set_priority(tbl, key, priority) ==
    LET res == Update1Priority(tbl, key, priority)
    IN  [table |-> res.table, ret |-> IF res.err = "ok" THEN "None" ELSE res.err]

\* ------------------------------------------------------------------ inputs
WorkSets == SUBSET Keys
Priorities == {1, 5}
Limits == {NULL} \cup {Some(n) : n \in 0..MaxLimit}
OrderBys == {<<>>, <<"timestamp">>, <<"priority", "timestamp">>}
ErrorInputs ==
    {[message |-> EmptyStr, stack |-> NULL],
     [message |-> Rep("x", 5000), stack |-> Some("Test stack trace")]}
CompleteInputs ==
    {[duration |-> NULL, version |-> PyNone],
     [duration |-> NULL, version |-> PyDict(<<>>)],
     [duration |-> Some(25), version |-> PyDict(<<<<"v", 1>>>>)]}

\* What `last` records of a call: the method, its key argument (0 when it
\* has none), what it returned or raised, the key list it was given
\* (refresh) or returned (get_scheduled_jobs), <<key, status>> of the rows
\* it found under its key (or deleted) and the keys it gave a first row.
Call(op, key, ret, keys, prior, added) ==
    [op |-> op, key |-> key, ret |-> ret, keys |-> keys, prior |-> prior,
     added |-> added]

Found(rows) == {<<r.key, r.status>> : r \in rows}
RowsOf(tbl, key) == {r \in tbl : r.key = key}

KeyCall(op, key, ret, before, after) ==
    Call(op, key, ret, <<>>, Found(RowsOf(before, key)), KeysOf(after) \ KeysOf(before))
BulkCall(op, ret, keys, before, after) ==
    Call(op, 0, ret, keys, Found(before \ after), KeysOf(after) \ KeysOf(before))

\* The locals of Job.refresh while it runs: the key source it was given,
\* existing_jobs, available_keys, existing_all and the position i of the loop
\* it is in.
NoRefresh ==
    [key_source |-> {}, existing_jobs |-> <<>>, available_keys |-> <<>>,
     existing_all |-> {}, i |-> 0]

\* Per key: `any` is the worker of the last call that wrote the record,
\* `claim` the worker of the last reserve, ignore, complete or error that
\* wrote it (0 = none yet).
NoWriter == [any |-> 0, claim |-> 0]

\* ------------------------------------------------------------------- Init
Init ==
    /\ table = {}
    /\ now = 0
    /\ last = Call("init", 0, "None", <<>>, {}, {})
    /\ pc = [w \in Workers |-> "idle"]
    /\ job = [w \in Workers |-> 0]
    /\ rf = [w \in Workers |-> NoRefresh]
    /\ excluded = {}
    /\ writer = [k \in Keys |-> NoWriter]
    /\ began = NULL

\* ---------------------------------------------------------------- actions
\* the store's clock advances
Tick ==
    /\ now < MaxTime
    /\ now' = now + 1
    /\ UNCHANGED <<table, last, pc, job, aux>>

MaxOf(S, d) == IF S = {} THEN d ELSE CHOOSE x \in S : \A y \in S : y <= x

Refresh(key_source) ==
    \E stamp \in [refresh_missing(table, key_source) -> now..MaxTime] :
        /\ \A k1, k2 \in DOMAIN stamp : k1 < k2 => stamp[k1] <= stamp[k2]
        /\ LET res == refresh(table, key_source, stamp)
           IN  /\ table' = res.table
               /\ last' = BulkCall("refresh", IF res.err = "ok" THEN "None" ELSE res.err,
                                   SortedSeq(key_source), table, res.table)
        /\ now' = MaxOf({stamp[k] : k \in DOMAIN stamp}, now)
        /\ UNCHANGED <<pc, job, aux>>

Reserve(w, key) ==
    /\ LET res == reserve(table, now, w, key)
       IN  /\ table' = res.table
           /\ last' = KeyCall("reserve", key, res.ret, table, res.table)
    /\ UNCHANGED <<now, pc, job, aux>>

Ignore(w, key) ==
    /\ LET res == ignore(table, now, w, key)
       IN  /\ table' = res.table
           /\ last' = KeyCall("ignore", key, res.ret, table, res.table)
    /\ UNCHANGED <<now, pc, job, aux>>

Complete(w, key, in, mode) ==
    /\ LET res == complete(table, now, w, key, in.duration, in.version, mode)
       IN  /\ table' = res.table
           /\ last' = KeyCall("complete", key, res.ret, table, res.table)
    /\ UNCHANGED <<now, pc, job, aux>>

Error(w, key, in) ==
    /\ LET res == error(table, now, w, key, in.message, in.stack)
       IN  /\ table' = res.table
           /\ last' = KeyCall("error", key, res.ret, table, res.table)
    /\ UNCHANGED <<now, pc, job, aux>>

SetPriority(key, priority) ==
    /\ LET res == set_priority(table, key, priority)
       IN  /\ table' = res.table
           /\ last' = KeyCall("set_priority", key, res.ret, table, res.table)
    /\ UNCHANGED <<now, pc, job, aux>>

GetScheduledJobs(limit, order_by) ==
    /\ \E keys \in get_scheduled_jobs(table, limit, order_by) :
           last' = BulkCall("get_scheduled_jobs", "None", keys, table, table)
    /\ UNCHANGED <<table, now, pc, job, aux>>

\* Job.delete(): delete_quick of the whole jobs table
Delete ==
    /\ table' = {}
    /\ last' = BulkCall("delete", "None", <<>>, table, {})
    /\ UNCHANGED <<now, pc, job, aux>>

Next ==
    \/ Tick
    \/ \E ks \in WorkSets : Refresh(ks)
    \/ \E w \in Workers, k \in Keys : Reserve(w, k)
    \/ \E w \in Workers, k \in Keys : Ignore(w, k)
    \/ \E w \in Workers, k \in Keys, in \in CompleteInputs, mode \in SqlModes :
            Complete(w, k, in, mode)
    \/ \E w \in Workers, k \in Keys, in \in ErrorInputs : Error(w, k, in)
    \/ \E k \in Keys, p \in Priorities : SetPriority(k, p)
    \/ \E limit \in Limits, ob \in OrderBys : GetScheduledJobs(limit, ob)
    \/ Delete

Spec == Init /\ [][Next]_vars

\* ----------------------------------------------- reconciliation in the large
\* The same methods over a larger key space and fewer argument values, so
\* that one refresh meets deleted, kept and new keys at once.
NumJobs == 3
JobKeys == 1..NumJobs

NextReconcile ==
    \/ \E ks \in SUBSET JobKeys : Refresh(ks)
    \/ \E k \in JobKeys : Reserve(1, k)
    \/ \E k \in JobKeys : Ignore(1, k)
    \/ \E k \in JobKeys, mode \in SqlModes :
            Complete(1, k, [duration |-> Some(25), version |-> PyDict(<<<<"v", 1>>>>)], mode)
    \/ \E k \in JobKeys : Error(1, k, [message |-> EmptyStr, stack |-> NULL])
    \/ \E k \in JobKeys : SetPriority(k, 1)

SpecReconcile == Init /\ [][NextReconcile]_vars

\* ------------------------------------------------------ the populate cycle
\* Each worker repeats: get_scheduled_jobs, reserve one of the keys, compute,
\* then complete or error. Every call is one statement on the shared store,
\* the calls of different workers interleave freely.
WPick(w) ==
    /\ pc[w] = "idle"
    /\ \E keys \in get_scheduled_jobs(table, NULL, <<>>) :
        /\ keys # <<>>
        /\ \E i \in 1..Len(keys) : job' = [job EXCEPT ![w] = keys[i]]
        /\ last' = BulkCall("get_scheduled_jobs", "None", keys, table, table)
    /\ pc' = [pc EXCEPT ![w] = "picked"]
    /\ UNCHANGED <<table, now, aux>>

WReserve(w) ==
    /\ pc[w] = "picked"
    /\ LET res == reserve(table, now, w, job[w])
       IN  /\ table' = res.table
           /\ last' = KeyCall("reserve", job[w], res.ret, table, res.table)
           /\ pc' = [pc EXCEPT ![w] = IF res.ret = "True" THEN "compute" ELSE "idle"]
           /\ job' = [job EXCEPT ![w] = IF res.ret = "True" THEN job[w] ELSE 0]
    /\ UNCHANGED <<now, aux>>

WComplete(w, in, mode) ==
    /\ pc[w] = "compute"
    /\ LET res == complete(table, now, w, job[w], in.duration, in.version, mode)
       IN  /\ table' = res.table
           /\ last' = KeyCall("complete", job[w], res.ret, table, res.table)
    /\ pc' = [pc EXCEPT ![w] = "idle"]
    /\ job' = [job EXCEPT ![w] = 0]
    /\ UNCHANGED <<now, aux>>

WError(w, in) ==
    /\ pc[w] = "compute"
    /\ LET res == error(table, now, w, job[w], in.message, in.stack)
       IN  /\ table' = res.table
           /\ last' = KeyCall("error", job[w], res.ret, table, res.table)
    /\ pc' = [pc EXCEPT ![w] = "idle"]
    /\ job' = [job EXCEPT ![w] = 0]
    /\ UNCHANGED <<now, aux>>

NextWorkers ==
    \/ Tick
    \/ \E ks \in WorkSets : Refresh(ks)
    \/ \E w \in Workers : WPick(w)
    \/ \E w \in Workers : WReserve(w)
    \/ \E w \in Workers, in \in CompleteInputs, mode \in SqlModes : WComplete(w, in, mode)
    \/ \E w \in Workers, in \in ErrorInputs : WError(w, in)

SpecWorkers == Init /\ [][NextWorkers]_vars

\* ------------------------------------------------------- keys set to ignore
\* The calls of one worker after another, with the history of which keys were
\* set to ignore and have had no status write or deletion by a caller since.
XIgnore(w, key) ==
    /\ LET res == ignore(table, now, w, key)
       IN  /\ table' = res.table
           /\ last' = KeyCall("ignore", key, res.ret, table, res.table)
           /\ excluded' = IF res.ret = "True" THEN excluded \cup {key} ELSE excluded
    /\ UNCHANGED <<now, pc, job, rf, writer, began>>

XReserve(w, key) ==
    /\ LET res == reserve(table, now, w, key)
       IN  /\ table' = res.table
           /\ last' = KeyCall("reserve", key, res.ret, table, res.table)
    /\ excluded' = excluded \ {key}
    /\ UNCHANGED <<now, pc, job, rf, writer, began>>

XError(w, key, in) ==
    /\ LET res == error(table, now, w, key, in.message, in.stack)
       IN  /\ table' = res.table
           /\ last' = KeyCall("error", key, res.ret, table, res.table)
    /\ excluded' = excluded \ {key}
    /\ UNCHANGED <<now, pc, job, rf, writer, began>>

XDelete ==
    /\ table' = {}
    /\ last' = BulkCall("delete", "None", <<>>, table, {})
    /\ excluded' = {}
    /\ UNCHANGED <<now, pc, job, rf, writer, began>>

NextExclude ==
    \/ Tick
    \/ \E ks \in WorkSets : Refresh(ks)
    \/ \E k \in Keys : XIgnore(1, k)
    \/ \E k \in Keys : XReserve(1, k)
    \/ \E k \in Keys : XError(1, k, [message |-> EmptyStr, stack |-> NULL])
    \/ \E k \in Keys, p \in Priorities : SetPriority(k, p)
    \/ \E limit \in Limits, ob \in OrderBys : GetScheduledJobs(limit, ob)
    \/ XDelete

SpecExclude == Init /\ [][NextExclude]_vars

\* ------------------------------------------------------------ error messages
\* Job.error over messages around the length limit, and over messages read
\* back from the table and passed to error again.
ErrorMessages ==
    {EmptyStr,
     Rep("x", ERROR_MESSAGE_LENGTH),
     Rep("x", ERROR_MESSAGE_LENGTH + 1),
     Rep(".", ERROR_MESSAGE_LENGTH + 1),
     StrCat(Rep("x", ERROR_MESSAGE_LENGTH), TRUNCATION_APPENDIX),
     Rep("x", 5000)}

StoredMessages(tbl) == {r.error_message : r \in tbl}

ErrorAgain(w, key) ==
    \E m \in StoredMessages(table) \ {EmptyStr} :
        Error(w, key, [message |-> m, stack |-> NULL])

NextError ==
    \/ Tick
    \/ \E w \in Workers, k \in Keys, m \in ErrorMessages :
            Error(w, k, [message |-> m, stack |-> NULL])
    \/ \E w \in Workers, k \in Keys : ErrorAgain(w, k)
    \/ \E w \in Workers, k \in Keys : Reserve(w, k)

SpecError == Init /\ [][NextError]_vars

\* ------------------------------------------------------ who wrote a record
\* The writing calls made by different workers, with the history of which
\* worker's call last reached each key's record. The clock stands still.
Wrote(key, w, claim) ==
    [writer EXCEPT ![key] = [any |-> w, claim |-> IF claim THEN w ELSE @.claim]]

MReserve(w, key) ==
    /\ LET res == reserve(table, now, w, key)
       IN  /\ table' = res.table
           /\ last' = KeyCall("reserve", key, res.ret, table, res.table)
           /\ writer' = IF res.ret = "True" THEN Wrote(key, w, TRUE) ELSE writer
    /\ UNCHANGED <<now, pc, job, rf, excluded, began>>

MIgnore(w, key) ==
    /\ LET res == ignore(table, now, w, key)
       IN  /\ table' = res.table
           /\ last' = KeyCall("ignore", key, res.ret, table, res.table)
           /\ writer' = IF res.ret = "True" THEN Wrote(key, w, TRUE) ELSE writer
    /\ UNCHANGED <<now, pc, job, rf, excluded, began>>

MComplete(w, key, in, mode) ==
    /\ LET res == complete(table, now, w, key, in.duration, in.version, mode)
       IN  /\ table' = res.table
           /\ last' = KeyCall("complete", key, res.ret, table, res.table)
           /\ writer' = IF res.ret = "None" THEN Wrote(key, w, TRUE) ELSE writer
    /\ UNCHANGED <<now, pc, job, rf, excluded, began>>

MError(w, key, in) ==
    /\ LET res == error(table, now, w, key, in.message, in.stack)
       IN  /\ table' = res.table
           /\ last' = KeyCall("error", key, res.ret, table, res.table)
           /\ writer' = IF res.ret = "None" THEN Wrote(key, w, TRUE) ELSE writer
    /\ UNCHANGED <<now, pc, job, rf, excluded, began>>

MSetPriority(w, key, priority) ==
    /\ LET res == set_priority(table, key, priority)
       IN  /\ table' = res.table
           /\ last' = KeyCall("set_priority", key, res.ret, table, res.table)
           /\ writer' = IF res.ret = "None" THEN Wrote(key, w, FALSE) ELSE writer
    /\ UNCHANGED <<now, pc, job, rf, excluded, began>>

\* refresh run by the orchestrator: a row it deletes or inserts is no
\* worker's write
MRefresh(key_source) ==
    /\ LET res == refresh(table, key_source, [k \in Keys |-> now])
       IN  /\ table' = res.table
           /\ last' = BulkCall("refresh", IF res.err = "ok" THEN "None" ELSE res.err,
                               SortedSeq(key_source), table, res.table)
           /\ writer' = [k \in Keys |->
                            IF RowsOf(res.table, k) = RowsOf(table, k)
                            THEN writer[k] ELSE NoWriter]
    /\ UNCHANGED <<now, pc, job, rf, excluded, began>>

NextWrites ==
    \/ \E ks \in WorkSets : MRefresh(ks)
    \/ \E w \in Workers, k \in Keys : MReserve(w, k)
    \/ \E w \in Workers, k \in Keys : MIgnore(w, k)
    \/ \E w \in Workers, k \in Keys, mode \in SqlModes :
            MComplete(w, k, [duration |-> Some(25), version |-> PyDict(<<<<"v", 1>>>>)], mode)
    \/ \E w \in Workers, k \in Keys :
            MError(w, k, [message |-> Rep("x", 5000), stack |-> Some("Test stack trace")])
    \/ \E w \in Workers, k \in Keys, p \in Priorities : MSetPriority(w, k, p)

SpecWrites == Init /\ [][NextWrites]_vars

\* ------------------------------------------- populate over a fixed key source
\* Every worker repeats refresh, get_scheduled_jobs, reserve, compute, then
\* complete or error, over a key source that stays the same. No worker stops:
\* a worker that can take its next step eventually takes it.
KeySource == Keys

PRefresh(w) ==
    /\ pc[w] = "idle"
    /\ Refresh(KeySource)

PCompute(w) ==
    \/ \E mode \in SqlModes :
            WComplete(w, [duration |-> Some(25), version |-> PyDict(<<<<"v", 1>>>>)], mode)
    \/ WError(w, [message |-> Rep("x", 5000), stack |-> Some("Test stack trace")])

NextPopulate ==
    \/ \E w \in Workers : PRefresh(w)
    \/ \E w \in Workers : WPick(w)
    \/ \E w \in Workers : WReserve(w)
    \/ \E w \in Workers : PCompute(w)

SpecPopulate ==
    /\ Init
    /\ [][NextPopulate]_vars
    /\ \A w \in Workers :
        /\ WF_vars(PRefresh(w))
        /\ WF_vars(WPick(w))
        /\ WF_vars(WReserve(w))
        /\ WF_vars(PCompute(w))

\* ------------------------------------------------ a worker that stops short
\* The populate cycle with workers that may stop for good while computing,
\* after a successful reserve: the key stays in job[w], no outcome is written.
WCrash(w) ==
    /\ pc[w] = "compute"
    /\ pc' = [pc EXCEPT ![w] = "crashed"]
    /\ UNCHANGED <<table, now, last, job, aux>>

NextStuck ==
    \/ Tick
    \/ \E ks \in WorkSets : Refresh(ks)
    \/ \E w \in Workers : WPick(w)
    \/ \E w \in Workers : WReserve(w)
    \/ \E w \in Workers : PCompute(w)
    \/ \E w \in Workers : WCrash(w)

SpecStuck == Init /\ [][NextStuck]_vars

\* ------------------------------------------------- refresh, step by step
\* Job.refresh as the statements it runs on the store, one at a time, so
\* that the calls of other workers can come in between.
InRefresh(w) == pc[w] \in {"r_jobs", "r_source", "r_delete", "r_insert"}

\* variant: the restriction to job_key left out
delete_quick_unrestricted(tbl, key) == {}

\* (self & job_key).delete_quick()
delete_quick(tbl, key) == {r \in tbl : r.key # key}

\* dict(**key, status="scheduled", priority=3)
new_job(key, ts) == [DefaultRow(key, "scheduled", ts) EXCEPT !.priority = 3]

\* refresh(key_source) is entered
RCall(w, key_source) ==
    /\ pc[w] = "idle"
    /\ pc' = [pc EXCEPT ![w] = "r_jobs"]
    /\ rf' = [rf EXCEPT ![w] = [NoRefresh EXCEPT !.key_source = key_source]]
    /\ UNCHANGED <<table, now, last, job, excluded, writer, began>>

\* existing_jobs = (self & f"status in {preserve_statuses}").fetch("KEY")
RReadJobs(w) ==
    /\ pc[w] = "r_jobs"
    /\ pc' = [pc EXCEPT ![w] = "r_source"]
    /\ rf' = [rf EXCEPT ![w].existing_jobs =
                SortedSeq(KeysOf({r \in table : r.status \in preserve_statuses}))]
    /\ UNCHANGED <<table, now, last, job, excluded, writer, began>>

\* available_keys = key_source.fetch("KEY")
RReadSource(w) ==
    /\ pc[w] = "r_source"
    /\ pc' = [pc EXCEPT ![w] = "r_delete"]
    /\ rf' = [rf EXCEPT ![w].available_keys = SortedSeq(rf[w].key_source),
                        ![w].i = 1]
    /\ UNCHANGED <<table, now, last, job, excluded, writer, began>>

\* one turn of the loop over existing_jobs
RDelete(w) ==
    /\ pc[w] = "r_delete"
    /\ rf[w].i <= Len(rf[w].existing_jobs)
    /\ LET job_key == rf[w].existing_jobs[rf[w].i]
       IN  table' = IF job_key \notin Range(rf[w].available_keys)
                    THEN delete_quick(table, job_key) ELSE table
    /\ rf' = [rf EXCEPT ![w].i = @ + 1]
    /\ UNCHANGED <<now, last, pc, job, excluded, writer, began>>

\* existing_all = self.fetch("KEY"), once the loop over existing_jobs is over
RReadAll(w) ==
    /\ pc[w] = "r_delete"
    /\ rf[w].i > Len(rf[w].existing_jobs)
    /\ pc' = [pc EXCEPT ![w] = "r_insert"]
    /\ rf' = [rf EXCEPT ![w].existing_all = KeysOf(table), ![w].i = 1]
    /\ UNCHANGED <<table, now, last, job, excluded, writer, began>>

\* one turn of the loop over available_keys; a DuplicateError of insert1
\* ends refresh
RInsert(w) ==
    /\ pc[w] = "r_insert"
    /\ rf[w].i <= Len(rf[w].available_keys)
    /\ LET key == rf[w].available_keys[rf[w].i]
           res == IF key \notin rf[w].existing_all
                  THEN Insert1(table, new_job(key, now), FALSE, "strict")
                  ELSE [table |-> table, err |-> "ok"]
       IN  /\ table' = res.table
           /\ IF res.err = "ok"
              THEN /\ rf' = [rf EXCEPT ![w].i = @ + 1]
                   /\ UNCHANGED <<pc, last>>
              ELSE /\ rf' = [rf EXCEPT ![w] = NoRefresh]
                   /\ pc' = [pc EXCEPT ![w] = "idle"]
                   /\ last' = Call("refresh", 0, res.err, rf[w].available_keys, {}, {})
    /\ UNCHANGED <<now, job, excluded, writer, began>>

\* refresh has run all its statements
Completed(w) == pc[w] = "r_insert" /\ rf[w].i > Len(rf[w].available_keys)

RReturn(w) ==
    /\ Completed(w)
    /\ pc' = [pc EXCEPT ![w] = "idle"]
    /\ rf' = [rf EXCEPT ![w] = NoRefresh]
    /\ last' = Call("refresh", 0, "None", rf[w].available_keys, {}, {})
    /\ UNCHANGED <<table, now, job, excluded, writer, began>>

RStep(w) ==
    \/ RReadJobs(w)
    \/ RReadSource(w)
    \/ RDelete(w)
    \/ RReadAll(w)
    \/ RInsert(w)
    \/ RReturn(w)


\* ------------------------------------------------- refresh that is cut short
\* One worker sets records and then runs refresh step by step; the process
\* may die at any step and refresh is then called again with the same key
\* source. `began` keeps the registry and the time at which the first call
\* was made and the registry the last cut left behind.
CBegin(key_source) ==
    /\ began = NULL
    /\ pc[1] = "idle"
    /\ began' = Some([table |-> table, now |-> now, key_source |-> key_source,
                      cut |-> NULL])
    /\ UNCHANGED <<table, now, last, pc, job, rf, excluded, writer>>

RStop(w) ==
    /\ InRefresh(w)
    /\ pc' = [pc EXCEPT ![w] = "idle"]
    /\ rf' = [rf EXCEPT ![w] = NoRefresh]
    /\ began' = IF began = NULL THEN NULL
                ELSE Some([began[1] EXCEPT !.cut = Some(table)])
    /\ UNCHANGED <<table, now, last, job, excluded, writer>>

CEnd ==
    /\ began # NULL
    /\ pc[1] = "idle"
    /\ began' = NULL
    /\ UNCHANGED <<table, now, last, pc, job, rf, excluded, writer>>

NextCutShort ==
    \/ Tick
    \/ \E k \in Keys : began = NULL /\ Reserve(1, k)
    \/ \E k \in Keys : began = NULL /\ Ignore(1, k)
    \/ \E k \in Keys : began = NULL /\ Error(1, k, [message |-> EmptyStr, stack |-> NULL])
    \/ \E ks \in WorkSets : CBegin(ks)
    \/ began # NULL /\ RCall(1, began[1].key_source)
    \/ RStep(1)
    \/ RStop(1)
    \/ CEnd

SpecCutShort == Init /\ [][NextCutShort]_vars


\* ------------------------------------------------ refresh among other calls
\* Workers that run refresh step by step while the others run refresh too or
\* reserve keys that have no record yet. The clock stands still.
NextInterleaved ==
    \/ \E w \in Workers, ks \in WorkSets : RCall(w, ks)
    \/ \E w \in Workers : RStep(w)
    \/ \E w \in Workers, k \in Keys :
            pc[w] = "idle" /\ RowsOf(table, k) = {} /\ Reserve(w, k)

SpecInterleaved == Init /\ [][NextInterleaved]_vars


\* ------------------------------------------- refresh against reserve/complete
\* Worker 1 runs refresh step by step while worker 2 reserves keys and
\* reports them complete. The clock stands still.
NextRace ==
    \/ \E ks \in WorkSets : RCall(1, ks)
    \/ RStep(1)
    \/ \E k \in Keys : Reserve(2, k)
    \/ \E k \in Keys, mode \in SqlModes :
            Complete(2, k, [duration |-> Some(25), version |-> PyDict(<<<<"v", 1>>>>)], mode)

SpecRace == Init /\ [][NextRace]_vars

\* =================================================================== claims
StatusOf(tbl, key) == {r.status : r \in RowsOf(tbl, key)}
ScheduledKeys(tbl) == {r.key : r \in {x \in tbl : x.status = "scheduled"}}

\* C1: of reserve(k) calls serialized by the store, only one made while k has
\* no reserved record returns true; a reserve(k) that finds k's record
\* reserved returns false and leaves the record, with the metadata of the
\* winning call, as it is.
C1_SecondReserveRefused ==
    [][last'.op = "reserve" => \A w \in Workers, k \in {last'.key} :
        Reserve(w, k) =>
            IF "reserved" \in StatusOf(table, k)
            THEN last'.ret = "False" /\ RowsOf(table', k) = RowsOf(table, k)
            ELSE last'.ret = "True"]_vars

\* C2: at most one worker at a time is in the compute phase for a key.
C2_OneComputingPerKey ==
    \A w1, w2 \in Workers :
        (w1 # w2 /\ pc[w1] = "compute" /\ pc[w2] = "compute") => job[w1] # job[w2]

C4_RefreshRemovesOnlyStaleScheduled ==
    [][last'.op = "refresh" => \A ks \in {Range(last'.keys)} :
        Refresh(ks) =>
            /\ \A r \in table :
                r.status \in {"reserved", "error", "ignore"} => RowsOf(table', r.key) # {}
            /\ \A r \in table :
                RowsOf(table', r.key) = {} => (r.status = "scheduled" /\ r.key \notin ks)
            /\ \A r \in table' : r.status = "scheduled" => r.key \in ks]_vars

\* C5: in every reachable state the registry holds at most one record per key.
C5_OneRecordPerKey ==
    \A r1, r2 \in table : r1.key = r2.key => r1 = r2

\* a reservation or outcome written over a record that existed, in a
\* registry that has a record for every key
C5_Witness ==
    /\ last.op \in {"reserve", "ignore", "complete", "error"}
    /\ last.ret \in {"True", "None"}
    /\ last.prior # {}
    /\ Cardinality(RowsOf(table, last.key)) = 1
    /\ KeysOf(table) = Keys

\* C6: get_scheduled_jobs returns only keys whose record is scheduled at the
\* time of the call and, when no limit is given, all of them.
C6_ClaimableIsScheduled ==
    [][last'.op = "get_scheduled_jobs" => \A limit \in Limits, ob \in OrderBys :
        GetScheduledJobs(limit, ob) =>
            /\ Range(last'.keys) \subseteq ScheduledKeys(table)
            /\ Len(last'.keys) = Cardinality(Range(last'.keys))
            /\ limit = NULL => Range(last'.keys) = ScheduledKeys(table)]_vars

\* get_scheduled_jobs returned the one scheduled key and left out a
\* reserved or error one
C6_Witness ==
    /\ last.op = "get_scheduled_jobs"
    /\ Len(last.keys) = 1
    /\ \E r \in table : r.status \in {"reserved", "error"} /\ r.key \notin Range(last.keys)

C8_CompleteRoundTrip ==
    [][last'.op = "complete" =>
       \A w \in Workers, k \in {last'.key}, in \in CompleteInputs, mode \in SqlModes :
        Complete(w, k, in, mode) =>
            /\ last'.ret = "None"
            /\ Cardinality(RowsOf(table', k)) = 1
            /\ \A r \in RowsOf(table', k) :
                /\ r.status = "success"
                /\ r.run_duration = in.duration
                /\ decode_version(r.run_version) = in.version]_vars

\* C9: with no order given, get_scheduled_jobs returns the scheduled keys by
\* priority ascending, then timestamp ascending; with a limit n it returns
\* the first n keys of that order and no more than n.
C9_DefaultOrderAndLimit ==
    [][last'.op = "get_scheduled_jobs" => \A limit \in Limits :
        GetScheduledJobs(limit, <<>>) =>
            LET keys == last'.keys
                row(i) == CHOOSE r \in table : r.key = keys[i]
            IN  /\ \A i, j \in 1..Len(keys) :
                    i < j => \/ row(i).priority < row(j).priority
                             \/ /\ row(i).priority = row(j).priority
                                /\ row(i).timestamp <= row(j).timestamp
                /\ \E full \in get_scheduled_jobs(table, NULL, <<>>) :
                    keys = SubSeq(full, 1, Len(keys))
                /\ limit = NULL => Len(keys) = Cardinality(ScheduledKeys(table))
                /\ limit # NULL =>
                    Len(keys) = Min(limit[1], Cardinality(ScheduledKeys(table)))]_vars

\* C10: ignore(k) on a key reserved by another worker returns false and
\* leaves that record as it is; ignore returns true only when it has set
\* the status ignore.
C10_IgnoreRefusesTakenKey ==
    [][last'.op = "ignore" => \A w \in Workers, k \in {last'.key} :
        Ignore(w, k) =>
            /\ (\E r \in RowsOf(table, k) :
                    r.status = "reserved" /\ r.pid # os_getpid(w))
                => (last'.ret = "False" /\ RowsOf(table', k) = RowsOf(table, k))
            /\ last'.ret = "True" => StatusOf(table', k) = {"ignore"}]_vars

\* C11: a key on which ignore has succeeded, and which no caller has deleted
\* or given another status since, is never returned by get_scheduled_jobs,
\* whatever refresh calls (with the key in or out of the work-set) came after.
C11_IgnoredNeverClaimable ==
    \A k \in excluded : \A limit \in Limits, ob \in OrderBys :
        \A keys \in get_scheduled_jobs(table, limit, ob) : k \notin Range(keys)

\* s[n:] for n >= 0
RECURSIVE StrDrop(_, _)
StrDrop(s, n) ==
    IF n <= 0 \/ s = <<>> THEN s
    ELSE IF Head(s).n <= n THEN StrDrop(Tail(s), n - Head(s).n)
    ELSE <<[ch |-> Head(s).ch, n |-> Head(s).n - n]>> \o Tail(s)

\* C12: no stored error_message is longer than 2047 characters; error(k, m)
\* stores m itself when m has at most 2047 characters and otherwise the first
\* 2047 - 12 characters of m followed by "...truncated", 2047 characters in
\* all; a stored message passed to error again is stored as it is.
C12_ErrorMessageCapped ==
    [][last'.op = "error" =>
       \A w \in Workers, k \in {last'.key},
          m \in ErrorMessages \cup StoredMessages(table) :
        Error(w, k, [message |-> m, stack |-> NULL]) =>
            /\ \A r \in table' : StrLen(r.error_message) <= 2047
            /\ \A r \in RowsOf(table', k) :
                /\ StrLen(m) <= 2047 => r.error_message = m
                /\ StrLen(m) > 2047 =>
                    /\ StrLen(r.error_message) = 2047
                    /\ StrTake(r.error_message, 2047 - 12) = StrTake(m, 2047 - 12)
                    /\ StrDrop(r.error_message, 2047 - 12) = TRUNCATION_APPENDIX
                /\ m \in StoredMessages(table) => r.error_message = m]_vars

\* error has stored a truncated message over a record that was in error
C12_Witness ==
    /\ last.op = "error"
    /\ <<last.key, "error">> \in last.prior
    /\ \E r \in RowsOf(table, last.key) :
        /\ StrLen(r.error_message) = 2047
        /\ StrDrop(r.error_message, 2047 - 12) = TRUNCATION_APPENDIX

\* C13: set_priority(k, p) on a key that has a record changes that record's
\* priority to p and nothing else, in that record or in any other; on a key
\* that has no record it leaves the registry as it is.
C13_SetPriorityFrame ==
    [][last'.op = "set_priority" => \A w \in Workers, k \in {last'.key}, p \in Priorities :
        MSetPriority(w, k, p) =>
            IF RowsOf(table, k) = {}
            THEN table' = table
            ELSE table' = {IF r.key = k THEN [r EXCEPT !.priority = p] ELSE r : r \in table}]_vars

\* set_priority has changed the priority of an error record that carries a
\* message and a stack, beside a record of another key
C13_Witness ==
    /\ last.op = "set_priority" /\ last.ret = "None"
    /\ \E r \in RowsOf(table, last.key) :
        /\ r.status = "error" /\ r.priority = 1
        /\ r.error_message # EmptyStr /\ r.error_stack # NULL
    /\ \E r \in table : r.key # last.key /\ r.priority = 3 /\ r.run_duration # NULL

\* C14: over a fixed key source, with workers that never stop, the populate
\* cycle eventually leaves every key of the key source with a record whose
\* status is success or error, and no scheduled record, for good.
C14_EveryKeyEndsTerminal ==
    <>[](/\ \A k \in KeySource :
                RowsOf(table, k) # {} /\ StatusOf(table, k) \subseteq {"success", "error"}
         /\ ScheduledKeys(table) = {})

\* the record worker w reserved before it stopped, not written by anyone since
Stuck(w) ==
    /\ pc[w] = "crashed"
    /\ \E r \in RowsOf(table, job[w]) : r.status = "reserved" /\ r.pid = os_getpid(w)

\* C15: the reserved record of a worker that stopped after reserve(k) is left
\* exactly as it is by every refresh whose work-set holds k, by every
\* get_scheduled_jobs and by every call of another worker on another key,
\* and get_scheduled_jobs does not return k.
C15_StuckStaysReserved ==
    [][\A w \in Workers : Stuck(w) =>
        LET k == job[w]
            same == RowsOf(table', k) = RowsOf(table, k)
        IN  /\ \A ks \in WorkSets : (k \in ks /\ Refresh(ks)) => same
            /\ \A w2 \in Workers :
                WPick(w2) => same /\ k \notin Range(last'.keys) /\ job'[w2] # k
            /\ \A w2 \in Workers :
                (job[w2] # k /\ (WReserve(w2) \/ PCompute(w2))) => same
            /\ Tick => same]_vars

\* a worker has stopped, its record is still reserved, and get_scheduled_jobs
\* has returned the other key alone
C15_Witness ==
    /\ \E w \in Workers : Stuck(w) /\ job[w] \notin Range(last.keys)
    /\ last.op = "get_scheduled_jobs" /\ Len(last.keys) = 1
    /\ KeysOf(table) = Keys

\* the registries refresh(key_source), run in one piece from registry tbl at
\* time t0, can leave
AtomicResults(tbl, key_source, t0) ==
    {refresh(tbl, key_source, stamp).table :
        stamp \in {s \in [refresh_missing(tbl, key_source) -> t0..MaxTime] :
                    \A k1, k2 \in DOMAIN s : k1 < k2 => s[k1] <= s[k2]}}

\* C16: at every step of a refresh, also one called again after an earlier
\* call was cut short, the registry has at most one record per key, every
\* record has a declared status and every record of a key that had none when
\* refresh was first called is scheduled with priority 3; when the call has
\* run to its end the registry is one that an uninterrupted refresh of the
\* registry it started from leaves.
C16_CutShortRefreshValid ==
    began # NULL =>
        LET b == began[1]
        IN  /\ \A r1, r2 \in table : r1.key = r2.key => r1 = r2
            /\ \A r \in table : r.status \in {"scheduled", "reserved", "error", "ignore"}
            /\ \A r \in table :
                r.key \notin KeysOf(b.table) => r.status = "scheduled" /\ r.priority = 3
            /\ Completed(1) => table \in AtomicResults(b.table, b.key_source, b.now)

\* a refresh was cut after it had deleted a record and before it had inserted
\* one, and the second call has run to its end
C16_Witness ==
    /\ began # NULL /\ Completed(1)
    /\ began[1].cut # NULL
    /\ began[1].cut[1] \notin {began[1].table, table}
    /\ KeysOf(began[1].table) \ KeysOf(table) # {}
    /\ KeysOf(table) \ KeysOf(began[1].table) # {}

\* the worker metadata of record r is that of worker w
MetadataOf(r, w) ==
    /\ r.user = get_user(w) /\ r.host = platform_node(w)
    /\ r.pid = os_getpid(w) /\ r.connection_id = connection_id(w)

\* C17 as stated: a record carries the user, host, pid and connection_id of
\* the worker whose reserve, ignore, complete, error or set_priority was the
\* last call to write it.
C17_MetadataOfLastWriter ==
    \A r \in table : writer[r.key].any # 0 => MetadataOf(r, writer[r.key].any)

\* C17, amended: a record carries the user, host, pid and connection_id of
\* the worker whose reserve, ignore, complete or error was the last to write
\* it; a set_priority by whatever worker leaves them as they are.
C17_MetadataOfLastClaimWriter ==
    \A r \in table : writer[r.key].claim # 0 => MetadataOf(r, writer[r.key].claim)

\* set_priority by one worker has just written a record that another
\* worker's error had written before
C17_Witness ==
    /\ last.op = "set_priority" /\ last.ret = "None"
    /\ writer[last.key].claim # 0 /\ writer[last.key].any # writer[last.key].claim
    /\ \E r \in RowsOf(table, last.key) : r.status = "error" /\ r.priority = 5

\* C18: in every reachable state a record whose status is not error has an
\* empty error_message, and a record whose status is not success has neither
\* a run_duration nor a run_version.
C18_FieldsMatchStatus ==
    \A r \in table :
        /\ r.status # "error" => r.error_message = EmptyStr
        /\ r.status # "success" => r.run_duration = NULL /\ r.run_version = NULL

\* C19: a refresh that runs among other workers' refreshes and reserves of
\* keys without a record does not end in a DuplicateError, and when it has
\* run to its end every key of its key source that it found without a record
\* has exactly one.
C19_RefreshNeverFailsOnDuplicate ==
    /\ last.op = "refresh" => last.ret # "DuplicateError"
    /\ \A w \in Workers :
        Completed(w) =>
            \A k \in Range(rf[w].available_keys) :
                k \notin rf[w].existing_all => Cardinality(RowsOf(table, k)) = 1

\* the record of a completed job: status success, which a store that does not
\* know the value keeps as ''
CompletedRecord(r) == r.status \in {"success", ""}

====
